---- MODULE Spec2Model ----
(***************************************************************************)
(* Model of the DBS sentiment dashboard (src/app.py).  The program is a    *)
(* Streamlit script: every change of a sidebar widget re-runs main() from  *)
(* top to bottom.  The state is the widgets' values, the memoized record   *)
(* store and everything the last pass of main() computed and displayed.    *)
(*                                                                         *)
(* Conventions: a date is its day of June 2024 (1 = 2024-06-01); a         *)
(* polarity is the float times ten (8 = 0.8); a percentage is the exact    *)
(* fraction num/den.                                                       *)
(***************************************************************************)
EXTENDS Integers, Sequences, FiniteSets, Bags

\* ------------------------------------------------------------ sample data

NumRecords == 10

\* The longest session explored: passes of main() after the first.
MaxPasses == 3

TopN == 3

text ==
  << "DBS Bank India has excellent customer service and quick loan approval",
     "DBS app crashes too often, very frustrating experience",
     "DBS net banking interface is user-friendly and secure",
     "DBS credit card has high interest rates, not recommended",
     "DBS mobile banking works smoothly, love the features",
     "Poor customer support from DBS Bank India branch",
     "DBS digibank is innovative and convenient for daily banking",
     "DBS loan process is too lengthy and complicated",
     "Great experience with DBS debit card internationally",
     "DBS bank charges are reasonable compared to other banks" >>

sentiment ==
  << "positive", "negative", "positive", "negative", "positive",
     "negative", "positive", "negative", "positive", "neutral" >>

emotion ==
  << "happy", "angry", "satisfied", "disappointed", "happy",
     "angry", "satisfied", "disappointed", "happy", "neutral" >>

source ==
  << "News", "Reddit", "News", "Reddit", "News",
     "Reddit", "News", "Reddit", "News", "Reddit" >>

platform ==
  << "Economic Times", "r/india", "Business Standard", "r/bangalore",
     "Financial Express", "r/mumbai", "Times of India", "r/delhi",
     "Hindu Business", "r/india" >>

search_term ==
  << "DBS Bank India", "DBS app", "DBS net banking", "DBS credit card",
     "DBS mobile banking", "DBS Bank India", "DBS digibank", "DBS loan",
     "DBS debit card", "DBS Bank India" >>

polarity == << 8, -7, 6, -5, 7, -6, 8, -4, 9, 1 >>

\* pd.date_range(start='2024-06-01', periods=10, freq='D')
date_range_start == 1

date == [i \in 1..NumRecords |-> date_range_start + i - 1]

load_data ==
  [i \in 1..NumRecords |->
     [text |-> text[i], sentiment |-> sentiment[i], emotion |-> emotion[i],
      source |-> source[i], platform |-> platform[i],
      search_term |-> search_term[i], polarity |-> polarity[i],
      date |-> date[i]]]

\* ------------------------------------------------------ sequence helpers

Range(s) == {s[i] : i \in 1..Len(s)}

Min2(a, b) == IF a <= b THEN a ELSE b

RECURSIVE SeqMin(_)
SeqMin(s) == IF Len(s) = 1 THEN s[1] ELSE Min2(s[1], SeqMin(Tail(s)))

RECURSIVE SeqMax(_)
SeqMax(s) ==
  IF Len(s) = 1 THEN s[1]
  ELSE LET m == SeqMax(Tail(s)) IN IF s[1] >= m THEN s[1] ELSE m

\* Series.unique(): the distinct values in order of first appearance.
RECURSIVE unique(_)
unique(s) ==
  IF s = << >> THEN << >>
  ELSE LET front == unique(SubSeq(s, 1, Len(s) - 1))
           x == s[Len(s)]
       IN IF x \in Range(front) THEN front ELSE Append(front, x)

Column(d, name) == [i \in 1..Len(d) |-> d[i][name]]

\* ---------------------------------------------------------- filter engine

\* InDateRange with the end bound exclusive.
InDateRange_exclusiveEnd(d, dr) == d >= dr[1] /\ d < dr[2]

\* (df['date'].dt.date >= date_range[0]) & (df['date'].dt.date <= date_range[1])
InDateRange(d, dr) == d >= dr[1] /\ d <= dr[2]

\* isin reading an empty selection as "no restriction".
isin_emptyMeansAll(v, allowed) == allowed = {} \/ v \in allowed

\* Series.isin(values)
isin(v, allowed) == v \in allowed

\* Mask using the single bound of a partial range as the start date.
Mask_partialAsStart(r, dr, srcs, prods) ==
  /\ Len(dr) = 2 => (r.date >= dr[1] /\ r.date <= dr[2])
  /\ Len(dr) = 1 => r.date >= dr[1]
  /\ r.source \in srcs
  /\ r.search_term \in prods

\* The boolean mask of one row, by the branch of `if len(date_range) == 2`.
Mask(r, dr, srcs, prods) ==
  IF Len(dr) = 2
  THEN InDateRange(r.date, dr) /\ isin(r.source, srcs)
       /\ isin(r.search_term, prods)
  ELSE isin(r.source, srcs) /\ isin(r.search_term, prods)

\* df[mask]: the rows whose mask is true, in their original order.
Filter(d, dr, srcs, prods) ==
  SelectSeq(d, LAMBDA r : Mask(r, dr, srcs, prods))

\* ------------------------------------------------------------- aggregator

\* CountSentiment with != for ==.
CountSentiment_notEqual(view, s) ==
  Len(SelectSeq(view, LAMBDA r : r.sentiment # s))

\* len(df_filtered[df_filtered['sentiment'] == s])
CountSentiment(view, s) ==
  Len(SelectSeq(view, LAMBDA r : r.sentiment = s))

\* a / b as the exact fraction; den = 0 stands for ZeroDivisionError.
Divide(a, b) == [num |-> a, den |-> b]

Zero == [num |-> 0, den |-> 1]

\* Pct without the total_mentions > 0 guard.
Pct_unguarded(count, total) == Divide(count * 100, total)

\* (count / total_mentions * 100) if total_mentions > 0 else 0
Pct(count, total) ==
  IF total > 0 THEN Divide(count * 100, total) ELSE Zero

\* InsertDesc putting x before the items of equal key.
RECURSIVE InsertDesc_unstable(_, _)
InsertDesc_unstable(x, s) ==
  IF s = << >> THEN << x >>
  ELSE IF s[1].k > x.k THEN << s[1] >> \o InsertDesc_unstable(x, Tail(s))
  ELSE << x >> \o s

\* Stable sort of keyed items [k, v], descending by k: x goes after every
\* item whose key is at least its own, so equal keys keep their original
\* relative order.
RECURSIVE InsertDesc(_, _)
InsertDesc(x, s) ==
  IF s = << >> THEN << x >>
  ELSE IF s[1].k >= x.k THEN << s[1] >> \o InsertDesc(x, Tail(s))
  ELSE << x >> \o s

RECURSIVE SortItemsDesc(_)
SortItemsDesc(s) ==
  IF s = << >> THEN << >>
  ELSE InsertDesc(s[Len(s)], SortItemsDesc(SubSeq(s, 1, Len(s) - 1)))

\* s reordered by descending keys[i], stably.
SortDesc(s, keys) ==
  LET sorted == SortItemsDesc([i \in 1..Len(s) |-> [k |-> keys[i], v |-> s[i]]])
  IN [i \in 1..Len(s) |-> sorted[i].v]

Head_n(s, n) == SubSeq(s, 1, Min2(n, Len(s)))

\* DataFrame.nlargest(n, 'polarity'), keep='first'
nlargest(view, n) ==
  Head_n(SortDesc(view, [i \in 1..Len(view) |-> view[i].polarity]), n)

\* DataFrame.nsmallest(n, 'polarity'), keep='first'
nsmallest(view, n) ==
  Head_n(SortDesc(view, [i \in 1..Len(view) |-> 0 - view[i].polarity]), n)

\* df_filtered[df_filtered['sentiment'] == 'positive'].nlargest(3, 'polarity')
TopPositive(view) ==
  nlargest(SelectSeq(view, LAMBDA r : r.sentiment = "positive"), TopN)

\* df_filtered[df_filtered['sentiment'] == 'negative'].nsmallest(3, 'polarity')
TopNegative(view) ==
  nsmallest(SelectSeq(view, LAMBDA r : r.sentiment = "negative"), TopN)

\* Series.value_counts(): one entry per value present, most frequent first,
\* equal counts in order of first appearance.
value_counts(view, name) ==
  LET col == Column(view, name)
      names == unique(col)
      rows == [i \in 1..Len(names) |->
                 [name |-> names[i],
                  count |-> Cardinality({j \in 1..Len(col) : col[j] = names[i]})]]
  IN SortDesc(rows, [i \in 1..Len(rows) |-> rows[i].count])

\* Lexical (code point) order of the group keys, as groupby sorts them.
SentimentOrder == << "negative", "neutral", "positive" >>

TermOrder ==
  << "DBS Bank India", "DBS app", "DBS credit card", "DBS debit card",
     "DBS digibank", "DBS loan", "DBS mobile banking", "DBS net banking" >>

DateOrder == [i \in 1..NumRecords |-> date_range_start + i - 1]

Index(order, x) == CHOOSE i \in 1..Len(order) : order[i] = x

\* The position of a (key, sentiment) pair in the sorted output: by key
\* first, then by sentiment.
Rank(pair, keyOrder) ==
  Index(keyOrder, pair[1]) * Len(SentimentOrder)
    + Index(SentimentOrder, pair[2])

\* GroupKeys over categorical columns: every (key, sentiment) pair is a
\* group, observed or not.
GroupKeys_unobserved(view, name, keyOrder) ==
  [i \in 1..(Len(keyOrder) * Len(SentimentOrder)) |->
     << keyOrder[((i - 1) \div Len(SentimentOrder)) + 1],
        SentimentOrder[((i - 1) % Len(SentimentOrder)) + 1] >>]

\* The groups of groupby([key, 'sentiment']): the key pairs observed in the
\* frame, each once (the grouping columns are not categorical, so keyOrder,
\* the universe of keys, plays no part).
GroupKeys(view, name, keyOrder) ==
  unique([i \in 1..Len(view) |-> << view[i][name], view[i].sentiment >>])

\* .size() of one group
GroupSize(view, name, pair) ==
  Cardinality({j \in 1..Len(view) :
                 view[j][name] = pair[1] /\ view[j].sentiment = pair[2]})

\* df.groupby([key, 'sentiment']).size().reset_index(name='count'): one row
\* per group, sorted by the group keys.
GroupBySize(view, name, keyOrder) ==
  LET groups == GroupKeys(view, name, keyOrder)
      rows == [i \in 1..Len(groups) |->
                 [key |-> groups[i][1], sentiment |-> groups[i][2],
                  count |-> GroupSize(view, name, groups[i])]]
  IN SortDesc(rows, [i \in 1..Len(groups) |-> 0 - Rank(groups[i], keyOrder)])

\* ------------------------------------------------------------- word cloud

\* WordCloud's tokenizer (regexp \w[\w']*) applied to each sample text.
Words ==
  << << "DBS", "Bank", "India", "has", "excellent", "customer", "service",
        "and", "quick", "loan", "approval" >>,
     << "DBS", "app", "crashes", "too", "often", "very", "frustrating",
        "experience" >>,
     << "DBS", "net", "banking", "interface", "is", "user", "friendly",
        "and", "secure" >>,
     << "DBS", "credit", "card", "has", "high", "interest", "rates", "not",
        "recommended" >>,
     << "DBS", "mobile", "banking", "works", "smoothly", "love", "the",
        "features" >>,
     << "Poor", "customer", "support", "from", "DBS", "Bank", "India",
        "branch" >>,
     << "DBS", "digibank", "is", "innovative", "and", "convenient", "for",
        "daily", "banking" >>,
     << "DBS", "loan", "process", "is", "too", "lengthy", "and",
        "complicated" >>,
     << "Great", "experience", "with", "DBS", "debit", "card",
        "internationally" >>,
     << "DBS", "bank", "charges", "are", "reasonable", "compared", "to",
        "other", "banks" >> >>

\* str.lower() on the tokens of the sample texts.
Lower(w) ==
  CASE w = "DBS" -> "dbs"
    [] w = "Bank" -> "bank"
    [] w = "India" -> "india"
    [] w = "Poor" -> "poor"
    [] w = "Great" -> "great"
    [] OTHER -> w

stop_words ==
  { "dbs", "bank", "india", "banking", "the", "and", "or", "but", "in", "on",
    "at", "to", "for", "of", "with", "by", "is", "are", "was", "were", "be",
    "been", "have", "has", "had", "do", "does", "did", "will", "would",
    "could", "should" }

\* The tokens of a sequence that are not stop words, compared in lower case.
KeptWords(ws) ==
  SelectSeq([i \in 1..Len(ws) |-> Lower(ws[i])],
            LAMBDA w : w \notin stop_words)

\* The word -> count bag of one sample text.
TextFrequencies ==
  [t \in Range(text) |->
     LET kept == KeptWords(Words[Index(text, t)])
     IN [w \in Range(kept) |-> Cardinality({i \in 1..Len(kept) : kept[i] = w})]]

\* The word -> count mapping WordCloud draws from
\* ' '.join(df_filtered['text'].astype(str)): joining with a blank merges no
\* two tokens, so the counts of the joined text are the sums of the texts'.
RECURSIVE WordFrequencies(_)
WordFrequencies(view) ==
  IF view = << >> THEN EmptyBag
  ELSE TextFrequencies[view[1].text] (+) WordFrequencies(Tail(view))

\* WordCloud(...).generate(all_text) raises on an empty mapping ("We need at
\* least 1 word to plot a word cloud") and whenever the library itself fails.
GenerateRaises(view, lib_fails) ==
  lib_fails \/ WordFrequencies(view) = EmptyBag

\* ----------------------------------------------------------- presentation

\* ChartOrInfo without the emptiness test.
ChartOrInfo_always(view, data) == [kind |-> "chart", data |-> data]

\* `if not df_filtered.empty: <chart of data> else: st.info("No data ...")`
ChartOrInfo(view, data) ==
  IF view # << >> THEN [kind |-> "chart", data |-> data]
  ELSE [kind |-> "info", data |-> << >>]

\* The word-cloud block: nothing but the subheader on an empty frame; else
\* the image, or the st.info of the bare `except:` when generate raises.
WordCloudRegion(view, lib_fails) ==
  IF view # << >>
  THEN IF GenerateRaises(view, lib_fails) THEN "info" ELSE "image"
  ELSE "none"

\* StoreAfterPass when the pass filters the memoized frame in place.
StoreAfterPass_inPlace(store, view) == view

\* @st.cache_data hands every pass its own copy of the memoized frame, and
\* df[mask] builds a new frame: a pass leaves the memoized value as it was.
StoreAfterPass(store, view) == store

\* ------------------------------------------------------------------ state

VARIABLES
  cache,            \* the value memoized by @st.cache_data
  date_range,       \* st.sidebar.date_input: a tuple of 0 to 2 dates
  sources,          \* st.sidebar.multiselect "Select Sources"
  products,         \* st.sidebar.multiselect "Select Products/Keywords"
  df,               \* load_data() of the last pass
  df_filtered,
  total_mentions,
  positive_count, positive_pct,
  negative_count, negative_pct,
  neutral_count, neutral_pct,
  sentiment_pie,    \* "Sentiment Distribution" region
  emotion_pie,      \* "Emotion Classification" region
  time_chart,       \* "Sentiment Trend Over Time" region
  product_chart,    \* "Sentiment by Product/Keyword" region
  positive_posts,
  negative_posts,
  word_cloud,       \* "Word Cloud" region: "image", "info" or "none"
  raised,           \* an exception escaped the pass
  passes            \* passes of main() since the first one

widgets == << date_range, sources, products >>

metrics ==
  << total_mentions, positive_count, positive_pct, negative_count,
     negative_pct, neutral_count, neutral_pct >>

regions ==
  << sentiment_pie, emotion_pie, time_chart, product_chart, positive_posts,
     negative_posts, word_cloud >>

vars ==
  << cache, widgets, df, df_filtered, metrics, regions, raised, passes >>

\* One pass of main() under the widget values dr, srcs, prods; lib_fails is
\* whether the word-cloud library fails in this pass.
main(dr, srcs, prods) ==
  LET frame == cache
      view == Filter(frame, dr, srcs, prods)
      total == Len(view)
      pos == CountSentiment(view, "positive")
      neg == CountSentiment(view, "negative")
      neu == CountSentiment(view, "neutral")
  IN /\ passes < MaxPasses
     /\ passes' = passes + 1
     /\ df' = frame
     /\ df_filtered' = view
     /\ total_mentions' = total
     /\ positive_count' = pos
     /\ positive_pct' = Pct(pos, total)
     /\ negative_count' = neg
     /\ negative_pct' = Pct(neg, total)
     /\ neutral_count' = neu
     /\ neutral_pct' = Pct(neu, total)
     /\ sentiment_pie' = ChartOrInfo(view, value_counts(view, "sentiment"))
     /\ emotion_pie' = ChartOrInfo(view, value_counts(view, "emotion"))
     /\ time_chart' = ChartOrInfo(view, GroupBySize(view, "date", DateOrder))
     /\ product_chart' =
          ChartOrInfo(view, GroupBySize(view, "search_term", TermOrder))
     /\ positive_posts' = TopPositive(view)
     /\ negative_posts' = TopNegative(view)
     /\ raised' = (\E q \in {Pct(pos, total), Pct(neg, total), Pct(neu, total)} :
                     q.den = 0)
     /\ cache' = StoreAfterPass(cache, view)
     /\ \E lib_fails \in BOOLEAN :
          word_cloud' = WordCloudRegion(view, lib_fails)

\* The widgets' bounds and options, as main() derives them from df.
MinDate == SeqMin(Column(load_data, "date"))

MaxDate == SeqMax(Column(load_data, "date"))

SourceOptions == Range(unique(Column(load_data, "source")))

ProductOptions == Range(unique(Column(load_data, "search_term")))

\* The first pass: the store is loaded and every widget has its default.
Init ==
  /\ date_range = << MinDate, MaxDate >>
  /\ sources = SourceOptions
  /\ products = ProductOptions
  /\ cache = load_data
  /\ df = load_data
  /\ passes = 0
  /\ \E lib_fails \in BOOLEAN :
       LET view == Filter(load_data, date_range, sources, products)
           total == Len(view)
           pos == CountSentiment(view, "positive")
           neg == CountSentiment(view, "negative")
           neu == CountSentiment(view, "neutral")
       IN /\ df_filtered = view
          /\ total_mentions = total
          /\ positive_count = pos
          /\ positive_pct = Pct(pos, total)
          /\ negative_count = neg
          /\ negative_pct = Pct(neg, total)
          /\ neutral_count = neu
          /\ neutral_pct = Pct(neu, total)
          /\ sentiment_pie = ChartOrInfo(view, value_counts(view, "sentiment"))
          /\ emotion_pie = ChartOrInfo(view, value_counts(view, "emotion"))
          /\ time_chart = ChartOrInfo(view, GroupBySize(view, "date", DateOrder))
          /\ product_chart =
               ChartOrInfo(view, GroupBySize(view, "search_term", TermOrder))
          /\ positive_posts = TopPositive(view)
          /\ negative_posts = TopNegative(view)
          /\ word_cloud = WordCloudRegion(view, lib_fails)
          /\ raised = (\E q \in {Pct(pos, total), Pct(neg, total),
                                 Pct(neu, total)} : q.den = 0)

\* The user clicks a first day in the date picker: the range is partial.
PickStart ==
  \E d \in MinDate..MaxDate :
    /\ date_range' = << d >>
    /\ UNCHANGED << sources, products >>
    /\ main(date_range', sources, products)

\* The user clicks the second day, completing the range.
PickEnd ==
  \E e \in MinDate..MaxDate :
    /\ Len(date_range) = 1
    /\ e >= date_range[1]
    /\ date_range' = << date_range[1], e >>
    /\ UNCHANGED << sources, products >>
    /\ main(date_range', sources, products)

\* The date input is emptied.
ClearDates ==
  /\ date_range # << >>
  /\ date_range' = << >>
  /\ UNCHANGED << sources, products >>
  /\ main(date_range', sources, products)

\* The user adds or removes one source in the multiselect.
ToggleSource ==
  \E s \in SourceOptions :
    /\ sources' = IF s \in sources THEN sources \ {s} ELSE sources \cup {s}
    /\ UNCHANGED << date_range, products >>
    /\ main(date_range, sources', products)

\* The user adds or removes one product/keyword in the multiselect.
ToggleProduct ==
  \E p \in ProductOptions :
    /\ products' = IF p \in products THEN products \ {p} ELSE products \cup {p}
    /\ UNCHANGED << date_range, sources >>
    /\ main(date_range, sources, products')

\* The user empties the sources multiselect with its clear-all button.
ClearSources ==
  /\ sources # {}
  /\ sources' = {}
  /\ UNCHANGED << date_range, products >>
  /\ main(date_range, sources', products)

\* The user empties the products multiselect with its clear-all button.
ClearProducts ==
  /\ products # {}
  /\ products' = {}
  /\ UNCHANGED << date_range, sources >>
  /\ main(date_range, sources, products')

Next ==
  \/ PickStart
  \/ PickEnd
  \/ ClearDates
  \/ ToggleSource
  \/ ToggleProduct
  \/ ClearSources
  \/ ClearProducts

Spec == Init /\ [][Next]_vars

\* ----------------------------------------------------------------- claims

\* Row r of the record store is in the filtered view.
InView(r) == \E j \in 1..Len(df_filtered) : df_filtered[j] = r

FullRange == << MinDate, MaxDate >>

\* C1: with both date bounds given, a record of the store is in the filtered
\* view exactly when start <= date <= end, its source is selected and its
\* search term is selected.
C1_FilterIffAllThree ==
  Len(date_range) = 2 =>
    \A i \in 1..Len(df) :
      InView(df[i]) <=>
        /\ date_range[1] <= df[i].date
        /\ df[i].date <= date_range[2]
        /\ df[i].source \in sources
        /\ df[i].search_term \in products

\* A proper sub-range with one source deselected keeps some records and
\* drops others, some by date alone.
C1_Witness ==
  /\ Len(date_range) = 2
  /\ date_range[1] > MinDate
  /\ date_range[2] < MaxDate
  /\ sources = {"Reddit"}
  /\ df_filtered # << >>
  /\ \E i \in 1..Len(df) :
       /\ df[i].source \in sources
       /\ df[i].date = date_range[2]
       /\ InView(df[i])

\* C2: an empty source selection or an empty product selection leaves no
\* record in the filtered view, whatever the date range holds.
C2_EmptySelectionEmptyView ==
  (sources = {} \/ products = {}) => df_filtered = << >>

\* The products are cleared while the date range is partial.
C2_Witness ==
  /\ products = {}
  /\ sources # {}
  /\ Len(date_range) = 1
  /\ df_filtered = << >>

\* C3: with exactly one date bound given, a record is in the filtered view
\* exactly when its source and its search term are selected; its date and
\* the bound play no part.
C3_PartialRangeSkipsDates ==
  Len(date_range) = 1 =>
    \A i \in 1..Len(df) :
      InView(df[i]) <=>
        (df[i].source \in sources /\ df[i].search_term \in products)

\* A partial range whose bound is later than a record that still passes.
C3_Witness ==
  /\ Len(date_range) = 1
  /\ sources = {"News"}
  /\ \E j \in 1..Len(df_filtered) : df_filtered[j].date < date_range[1]
  /\ \E j \in 1..Len(df_filtered) : df_filtered[j].date > date_range[1]

RedditOnly ==
  /\ date_range = FullRange
  /\ sources = {"Reddit"}
  /\ products = ProductOptions

\* C4 as stated: Reddit alone, full range, all terms, gives exactly 4
\* records, all negative.
C4_AsStated ==
  RedditOnly =>
    /\ Len(df_filtered) = 4
    /\ Column(df_filtered, "search_term")
         = << "DBS app", "DBS credit card", "DBS Bank India", "DBS loan" >>
    /\ negative_count = 4
    /\ positive_count = 0
    /\ neutral_count = 0

\* C4 amended: Reddit alone, full range, all terms, gives exactly 5 records:
\* the four negative ones and the neutral 'DBS Bank India' one of the last
\* day; negative = 4, positive = 0, neutral = 1.
C4_RedditFiveRecords ==
  RedditOnly =>
    /\ Len(df_filtered) = 5
    /\ Column(df_filtered, "search_term")
         = << "DBS app", "DBS credit card", "DBS Bank India", "DBS loan",
              "DBS Bank India" >>
    /\ Column(df_filtered, "sentiment")
         = << "negative", "negative", "negative", "negative", "neutral" >>
    /\ total_mentions = 5
    /\ negative_count = 4
    /\ positive_count = 0
    /\ neutral_count = 1

C4_Witness == RedditOnly /\ passes > 0 /\ Len(df_filtered) = 5

\* C5: the three counts add up to the total and, when the total is positive,
\* the three percentages are count * 100 / total and add up to 100; when the
\* total is 0 the counts and the percentages are all 0 and nothing raised.
C5_MetricsSum ==
  /\ total_mentions = Len(df_filtered)
  /\ positive_count + negative_count + neutral_count = total_mentions
  /\ total_mentions > 0 =>
       /\ positive_pct = [num |-> positive_count * 100, den |-> total_mentions]
       /\ negative_pct = [num |-> negative_count * 100, den |-> total_mentions]
       /\ neutral_pct = [num |-> neutral_count * 100, den |-> total_mentions]
       /\ positive_pct.num + negative_pct.num + neutral_pct.num
            = 100 * total_mentions
  /\ total_mentions = 0 =>
       /\ positive_count = 0 /\ negative_count = 0 /\ neutral_count = 0
       /\ positive_pct = Zero /\ negative_pct = Zero /\ neutral_pct = Zero
       /\ ~raised

\* The metrics of an empty view, after a pass with a usable date range.
C5_Witness ==
  /\ total_mentions = 0
  /\ df_filtered = << >>
  /\ Len(date_range) = 2
  /\ positive_pct = Zero

RECURSIVE SumCounts(_)
SumCounts(rows) ==
  IF rows = << >> THEN 0 ELSE rows[1].count + SumCounts(Tail(rows))

\* rows is the sparse group-by of the filtered view on column name.
SparseGroupBy(rows, name) ==
  /\ \A i \in 1..Len(rows) : rows[i].count > 0
  /\ \A i, j \in 1..Len(rows) :
       (rows[i].key = rows[j].key /\ rows[i].sentiment = rows[j].sentiment)
         => i = j
  /\ {<< rows[i].key, rows[i].sentiment >> : i \in 1..Len(rows)}
       = {<< df_filtered[j][name], df_filtered[j].sentiment >> :
            j \in 1..Len(df_filtered)}
  /\ SumCounts(rows) = Len(df_filtered)

\* C6: for a non-empty view, the time-series and the product tables have
\* exactly one row per (key, sentiment) pair present in the view, no row
\* with count 0, and counts that add up to the number of records.
C6_GroupBySparse ==
  df_filtered # << >> =>
    /\ time_chart.kind = "chart"
    /\ SparseGroupBy(time_chart.data, "date")
    /\ product_chart.kind = "chart"
    /\ SparseGroupBy(product_chart.data, "search_term")

\* A view where one search term carries several sentiments and other terms
\* and days are absent.
C6_Witness ==
  /\ df_filtered # << >>
  /\ Len(df_filtered) < Len(df)
  /\ time_chart.kind = "chart"
  /\ \E i, j \in 1..Len(product_chart.data) :
       /\ i # j
       /\ product_chart.data[i].key = product_chart.data[j].key

\* The position of a record in the filtered view.
Pos(r) == CHOOSE j \in 1..Len(df_filtered) : df_filtered[j] = r

\* posts is the top list of the records of sentiment label: sign = 1 ranks
\* by largest polarity, sign = -1 by smallest.
TopList(posts, label, sign) ==
  LET pool == SelectSeq(df_filtered, LAMBDA r : r.sentiment = label)
  IN /\ \A i \in 1..Len(posts) :
          posts[i].sentiment = label /\ InView(posts[i])
     /\ Len(posts) = Min2(TopN, Len(pool))
     /\ \A i, j \in 1..Len(posts) : i # j => posts[i] # posts[j]
     /\ \A i \in 1..(Len(posts) - 1) :
          \/ sign * posts[i].polarity > sign * posts[i + 1].polarity
          \/ /\ posts[i].polarity = posts[i + 1].polarity
             /\ Pos(posts[i]) < Pos(posts[i + 1])
     /\ \A i \in 1..Len(posts), j \in 1..Len(pool) :
          (\A k \in 1..Len(posts) : posts[k] # pool[j])
            => sign * pool[j].polarity <= sign * posts[i].polarity

\* C7: the top-positive list holds only positive records of the view,
\* min(3, number of positive records) of them, by descending polarity with
\* ties in original order, and no positive record left out beats one that
\* is in; the top-negative list likewise by ascending polarity; on the full
\* sample the top negatives have polarity -0.7, -0.6, -0.5 in that order.
C7_TopLists ==
  /\ TopList(positive_posts, "positive", 1)
  /\ TopList(negative_posts, "negative", -1)
  /\ df_filtered = load_data =>
       Column(negative_posts, "polarity") = << -7, -6, -5 >>

\* A view whose top positives hold a tie and whose negatives are fewer
\* than three.
C7_Witness ==
  /\ Len(positive_posts) = TopN
  /\ \E i \in 1..(TopN - 1) :
       positive_posts[i].polarity = positive_posts[i + 1].polarity
  /\ negative_posts # << >>
  /\ Len(negative_posts) < TopN

ChartRegions == << sentiment_pie, emotion_pie, time_chart, product_chart >>

\* C8: a pass over an empty view raises nothing and shows the "no data"
\* placeholder in each of the four chart regions; a region shows a chart
\* only when the view is not empty.
C8_EmptyViewPlaceholders ==
  /\ df_filtered = << >> =>
       /\ ~raised
       /\ \A i \in 1..Len(ChartRegions) : ChartRegions[i].kind = "info"
  /\ \A i \in 1..Len(ChartRegions) :
       ChartRegions[i].kind = "chart" => df_filtered # << >>

\* An empty view reached by filtering, with the four placeholders shown.
C8_Witness ==
  /\ df_filtered = << >>
  /\ passes > 0
  /\ sentiment_pie.kind = "info"
  /\ emotion_pie.kind = "info"
  /\ time_chart.kind = "info"
  /\ product_chart.kind = "info"

\* C9: whenever the word frequencies of the filtered view are empty, the
\* word-cloud region shows the informational placeholder, and no error
\* escapes the pass.
C9_EmptyFrequenciesPlaceholder ==
  WordFrequencies(df_filtered) = EmptyBag =>
    (word_cloud = "info" /\ ~raised)

\* C10: after any sequence of filter changes the record store is still the
\* 10 loaded records in their order, and the filtered view and every
\* aggregate of the last pass are those of the unchanged store under the
\* widget values now in force.
C10_StoreUnchangedViewsRecomputed ==
  LET view == Filter(load_data, date_range, sources, products)
  IN /\ cache = load_data
     /\ df = load_data
     /\ Len(df) = NumRecords
     /\ df_filtered = view
     /\ total_mentions = Len(view)
     /\ positive_count = CountSentiment(view, "positive")
     /\ negative_count = CountSentiment(view, "negative")
     /\ neutral_count = CountSentiment(view, "neutral")
     /\ positive_pct = Pct(positive_count, Len(view))
     /\ negative_pct = Pct(negative_count, Len(view))
     /\ neutral_pct = Pct(neutral_count, Len(view))
     /\ sentiment_pie = ChartOrInfo(view, value_counts(view, "sentiment"))
     /\ emotion_pie = ChartOrInfo(view, value_counts(view, "emotion"))
     /\ time_chart = ChartOrInfo(view, GroupBySize(view, "date", DateOrder))
     /\ product_chart =
          ChartOrInfo(view, GroupBySize(view, "search_term", TermOrder))
     /\ positive_posts = TopPositive(view)
     /\ negative_posts = TopNegative(view)

\* The full view shown again after it had been narrowed.
C10_Witness ==
  /\ passes >= 2
  /\ date_range = FullRange
  /\ sources = SourceOptions
  /\ products = ProductOptions
  /\ df_filtered = load_data

====
